---- MODULE Spec2Model ----
(***************************************************************************)
(* Model of the PDF signing engine of fast-api-digisign                    *)
(* (src/app/services/pdf_signer.py), as it is called by the request        *)
(* handlers of src/main.py.                                                *)
(*                                                                         *)
(* State: the working directory (a map from path to file content), and,   *)
(* for every worker that runs a pipeline invocation, the arguments of the  *)
(* call, its position in the function body and its local variables.        *)
(* One action per statement group of the pipeline functions; a group ends  *)
(* where the next statement touches a file that other invocations also     *)
(* name.                                                                   *)
(*                                                                         *)
(* Library behaviour the code relies on (pyHanko, cryptography):           *)
(*  - load_key_and_certificates raises ValueError on a wrong password or   *)
(*    a malformed bundle;                                                  *)
(*  - SimpleSigner.load returns None when a key/certificate file cannot    *)
(*    be read;                                                             *)
(*  - enumerate_sig_fields(w) is a generator of 3-tuples                   *)
(*    (name, value, reference);                                            *)
(*  - append_signature_field raises PdfWriteError when a signature field   *)
(*    of the given name already exists;                                    *)
(*  - sign_pdf writes the bytes of the input stream followed by one        *)
(*    incremental update that holds the new field and its signature.       *)
(*                                                                         *)
(* The HTTP layer (src/main.py, src/app/api/endpoints.py, verify_token of  *)
(* src/app/utils/auth.py and src/app/core/security.py) is modelled on top  *)
(* of the pipeline: a handler is a coroutine on the event loop of its      *)
(* server process and waits for the pipeline call with future.result().    *)
(* Library behaviour it relies on (PyJWT, concurrent.futures, asyncio):    *)
(*  - the jwt package exports ExpiredSignatureError, InvalidTokenError,     *)
(*    DecodeError, InvalidSignatureError and PyJWTError, and no JWTError;   *)
(*  - Future.result() blocks the calling thread until the call is done;    *)
(*  - an exception that leaves a dependency or a handler without being     *)
(*    an HTTPException is answered with status 500.                        *)
(***************************************************************************)
EXTENDS Integers, Sequences, FiniteSets, TLC

\* ------------------------------------------------------------------ bounds
NumWorkers == 2     \* pipeline invocations that may be in flight together
MaxCalls == 2       \* invocations started in one behaviour
NumProcs == 2       \* server processes that share the working directory

\* A worker is a caller of PDFSigner: an executor thread of a request handler
\* (main.py, executor.submit) in one of the server processes that share the
\* working directory.
Workers == 1..NumWorkers

\* --------------------------------------------------------------- constants
\* Layout numbers of the pipeline functions.
OwnerShift == 250
InchargeShift == 255
LeaveBoxWidth == 220
LeaveBoxHeight == 70

\* ------------------------------------------------------------------- paths
\* A path is <<name, scope>>: scope 0 is a fixed name in the working
\* directory, scope w > 0 a name the caller of worker w chose for its call.
cert_path == <<"temp_cert.pem", 0>>
key_path == <<"temp_key.pem", 0>>
intermediate_output == <<"intermediate_output.pdf", 0>>

InputPath(w) == <<"input.pdf", w>>
OutputPath(w) == <<"output.pdf", w>>
ImagePath(w) == <<"image.png", w>>

StagedPaths == {cert_path, key_path, intermediate_output}
CallerPaths == UNION {{InputPath(w), OutputPath(w), ImagePath(w)} : w \in Workers}
Paths == StagedPaths \cup CallerPaths

\* ----------------------------------------------------------- file contents
NoFile == [t |-> "none"]
PemFile(part, b) == [t |-> "pem", part |-> part, of |-> b]
PdfFile(bytes) == [t |-> "pdf", bytes |-> bytes]
ImageFile(readable) == [t |-> "image", readable |-> readable]

Exists(fsys, p) == fsys[p] # NoFile

\* A document is a sequence of byte blocks: a header, then one block per
\* incremental update.  An update creates at most one signature field and
\* fills at most one.
Hdr == [k |-> "hdr"]
Junk == [k |-> "junk"]
NoBox == <<0, 0, 0, 0>>
NoSigner == [key |-> "none", cert |-> "none"]
Update(fname, box, sname, by) ==
    [k |-> "upd", creates |-> fname, box |-> box, signs |-> sname, by |-> by]

Blank == <<Hdr>>
Malformed == <<Junk>>

IsPrefix(s, t) == Len(s) <= Len(t) /\ SubSeq(t, 1, Len(s)) = s

\* PdfFileReader: the bytes parse iff they start with a header and every
\* later block is an incremental update.
Parses(bytes) ==
    /\ Len(bytes) >= 1
    /\ bytes[1] = Hdr
    /\ \A i \in 2..Len(bytes) : bytes[i].k = "upd"

Updates(bytes) == {i \in 1..Len(bytes) : bytes[i].k = "upd"}

\* The positions of the blocks that create a signature field called name.
FieldAt(bytes, name) == {i \in Updates(bytes) : bytes[i].creates = name}
HasField(bytes, name) == FieldAt(bytes, name) # {}
\* The positions of the blocks that fill the field called name.
SigAt(bytes, name) == {i \in Updates(bytes) : bytes[i].signs = name}
IsSigned(bytes, name) == SigAt(bytes, name) # {}
FieldNamesOf(bytes) == {bytes[i].creates : i \in Updates(bytes)} \ {""}

\* --------------------------------------------------------------- the roles
TwoSigRoles == {"Owner", "Incharge"}
SingleRoles == {"LeaveOwner", "LeaveHead", "LeaveSao", "LeaveCao"}
Roles == TwoSigRoles \cup SingleRoles

\* The slip that gives both DTR roles the shift of the Incharge role.
adjust_y_InchargeForBoth(role, whole_month) ==
    IF whole_month THEN 0 ELSE InchargeShift

\* adjust_y = 0 if whole_month else 250 (Owner), 255 (Incharge)
adjust_y(role, whole_month) ==
    IF whole_month THEN 0
    ELSE IF role = "Owner" THEN OwnerShift
    ELSE IF role = "Incharge" THEN InchargeShift
    ELSE 0

\* The slip that gives the head's field the anchor of the owner's.
LeaveAnchor_OwnerForHead(role) ==
    CASE role = "LeaveOwner" -> <<330, 535>>
      [] role = "LeaveHead" -> <<330, 535>>
      [] role = "LeaveSao" -> <<50, 355>>
      [] role = "LeaveCao" -> <<200, 155>>

\* x, y of the single-field roles; x2 = x + 220, y2 = y + 70.
LeaveAnchor(role) ==
    CASE role = "LeaveOwner" -> <<330, 535>>
      [] role = "LeaveHead" -> <<330, 355>>
      [] role = "LeaveSao" -> <<50, 355>>
      [] role = "LeaveCao" -> <<200, 155>>

LeaveBox(role) ==
    LET x == LeaveAnchor(role)[1]
        y == LeaveAnchor(role)[2]
    IN  <<x, y, x + LeaveBoxWidth, y + LeaveBoxHeight>>

\* The name and the box of the first field a role's function creates.
FieldName1(role) ==
    CASE role = "Owner" -> "OwnerSignature1"
      [] role = "Incharge" -> "InchargeSignature1"
      [] role = "LeaveOwner" -> "OwnerSignature2"
      [] role = "LeaveHead" -> "HeadSignature2"
      [] role = "LeaveSao" -> "SaoSignature2"
      [] role = "LeaveCao" -> "CaoSignature2"

Box1(role, whole_month) ==
    CASE role = "Owner" ->
           <<50, 105 + adjust_y(role, whole_month), 250, 165 + adjust_y(role, whole_month)>>
      [] role = "Incharge" ->
           <<50, 70 + adjust_y(role, whole_month), 250, 130 + adjust_y(role, whole_month)>>
      [] OTHER -> LeaveBox(role)

\* The slip that leaves the second box where it is on a partial-range page.
Box2_Unshifted(role, whole_month) ==
    CASE role = "Owner" -> <<360, 105, 560, 165>>
      [] role = "Incharge" -> <<360, 70, 560, 130>>

\* The name and the box of the second field of the two-signature roles.
FieldName2(role) ==
    CASE role = "Owner" -> "OwnerSignature2"
      [] role = "Incharge" -> "InchargeSignature2"

Box2(role, whole_month) ==
    CASE role = "Owner" ->
           <<360, 105 + adjust_y(role, whole_month), 560, 165 + adjust_y(role, whole_month)>>
      [] role = "Incharge" ->
           <<360, 70 + adjust_y(role, whole_month), 560, 130 + adjust_y(role, whole_month)>>

\* ------------------------------------------------- the duplicate-field check
\* Python values: a str, or the 3-tuple enumerate_sig_fields yields.
PyStr(s) == [py |-> "str", s |-> s]
PyFieldTuple(name, filled) == [py |-> "tuple", name |-> name, filled |-> filled]
PyEq(a, b) == a.py = b.py /\ a = b

\* enumerate_sig_fields(w): one (name, value, reference) tuple per field.
enumerate_sig_fields(bytes) ==
    {PyFieldTuple(n, IsSigned(bytes, n)) : n \in FieldNamesOf(bytes)}

\* A duplicate check that compares the name with the names of the fields.
field_exists_ByName(bytes) == HasField(bytes, "InchargeSignature1")

\* field_exists = 'InchargeSignature1' in enumerate_sig_fields(w)
field_exists(bytes) ==
    \E t \in enumerate_sig_fields(bytes) : PyEq(PyStr("InchargeSignature1"), t)

\* The slip that puts the duplicate check in front of every field creation.
Guarded_EveryField(role, n) == TRUE

\* Which field creations have the duplicate check in front of them: the n-th
\* field of a role's function.  Only dtr_sign_pdf_sync_incharge has the
\* check, and only before its first field.
Guarded(role, n) == role = "Incharge" /\ n = 1

\* A field creation that never refuses a name.
AppendRefused_Never(bytes, name, guarded) == FALSE

\* [if not field_exists:] fields.append_signature_field(w, SigFieldSpec(name, box))
\* raises when the call is made and the document has a field of that name.
AppendRefused(bytes, name, guarded) ==
    ~(guarded /\ field_exists(bytes)) /\ HasField(bytes, name)

\* ------------------------------------------------------------------- state
VARIABLES
    fs,        \* the files: path -> content
    pc,        \* worker -> position in the pipeline function
    args,      \* worker -> arguments of the call in flight
    loc,       \* worker -> local variables: signer, and the writer w
    err,       \* worker -> the exception that ended the call ("" = none)
    calls,     \* invocations started so far
    cid,       \* worker -> number of its call in flight (history)
    creator,   \* staged path -> number of the call that wrote it last (history)
    foreign,   \* worker -> staged paths of another call in flight it touched (history)
    wrote,     \* worker -> paths the call in flight created or wrote (history)
    hpc,       \* request slot -> position of its request in the HTTP layer
    req,       \* request slot -> the request being handled
    resp,      \* request slot -> the response, and what led to it (history)
    loop       \* server process -> the handler that holds its event-loop
               \* thread in a blocking call (0 = the loop is running)

hvars == <<hpc, req, resp, loop>>
vars == <<fs, pc, args, loc, err, calls, cid, creator, foreign, wrote,
          hpc, req, resp, loop>>

Procs == 1..NumProcs

NoReq == [app |-> "none", role |-> "none", token |-> "none", proc |-> 0,
          save |-> "none", readable |-> TRUE, key |-> "", image_name |-> ""]
NoResp == [status |-> 0, cause |-> "", complete |-> FALSE]

\* No request has arrived.
HttpInit ==
    /\ hpc = [r \in Workers |-> "none"]
    /\ req = [r \in Workers |-> NoReq]
    /\ resp = [r \in Workers |-> NoResp]
    /\ loop = [p \in Procs |-> 0]

NoArgs == [role |-> "none", whole_month |-> TRUE, bundle |-> "none",
           p12 |-> "none", fault |-> "none"]
NoLoc == [signer |-> NoSigner, src |-> <<"", 0>>, base |-> <<>>,
          creates |-> "", box |-> NoBox, signs |-> "", checked |-> FALSE]

Running == {"extract", "write_key", "load", "field1", "sign1", "field2",
            "sign2", "rm_cert", "rm_key", "rm_inter"}
InFlight(w) == pc[w] \in Running

TypeOK ==
    /\ pc \in [Workers -> Running \cup {"idle", "done", "failed"}]
    /\ calls \in 0..MaxCalls
    /\ DOMAIN fs = Paths

Init ==
    /\ fs = [p \in Paths |-> NoFile]
    /\ pc = [w \in Workers |-> "idle"]
    /\ args = [w \in Workers |-> NoArgs]
    /\ loc = [w \in Workers |-> NoLoc]
    /\ err = [w \in Workers |-> ""]
    /\ calls = 0
    /\ cid = [w \in Workers |-> 0]
    /\ creator = [p \in StagedPaths |-> 0]
    /\ foreign = [w \in Workers |-> {}]
    /\ wrote = [w \in Workers |-> {}]
    /\ HttpInit

\* ------------------------------------------------------------ history rules
\* The staged paths among ps that a different call, still in flight, wrote.
ForeignAmong(wk, ps) ==
    {p \in ps \cap StagedPaths :
        \E o \in Workers \ {wk} : InFlight(o) /\ creator[p] = cid[o]}

Touch(wk, ps) == foreign' = [foreign EXCEPT ![wk] = @ \cup ForeignAmong(wk, ps)]

\* worker wk writes (creates, truncates) the paths ps.
Writes(wk, ps) ==
    /\ wrote' = [wrote EXCEPT ![wk] = @ \cup ps]
    /\ creator' = [p \in StagedPaths |-> IF p \in ps THEN cid[wk] ELSE creator[p]]

Raise(wk, kind) ==
    /\ pc' = [pc EXCEPT ![wk] = "failed"]
    /\ err' = [err EXCEPT ![wk] = kind]

Goto(wk, label) ==
    /\ pc' = [pc EXCEPT ![wk] = label]
    /\ UNCHANGED err

\* ----------------------------------------------------------- library calls
\* An extraction that never checks the password.
load_key_and_certificates_Unchecked(a) == a.bundle

\* load_key_and_certificates(p12_data, p12_password.encode()): the bundle's
\* key and certificate, or ValueError.
load_key_and_certificates(a) ==
    IF a.p12 = "ok" THEN a.bundle ELSE "ValueError"

\* signers.SimpleSigner.load(key_path, cert_path): what the two files hold
\* now, or None when one of them cannot be read.
SimpleSigner_load(fsys, kp, cp) ==
    IF Exists(fsys, kp) /\ Exists(fsys, cp)
    THEN [key |-> fsys[kp].of, cert |-> fsys[cp].of]
    ELSE NoSigner

\* What the input stream of the writer of wk can deliver when sign_pdf copies
\* it to the output: the bytes buffered when it was parsed, or the bytes the
\* file holds now (another open(..., 'wb') of the same name truncates the
\* file under the reader).
StreamContents(wk) ==
    {loc[wk].base} \cup
    (IF Exists(fs, loc[wk].src) THEN {fs[loc[wk].src].bytes} ELSE {})

\* sign_pdf(w, output=outf): the stream, then one incremental update.
SignedBytes(prefix, l) ==
    Append(prefix, Update(l.creates, l.box, l.signs, l.signer))

\* ------------------------------------------------------------ the pipeline
\* The caller saves the uploaded document and image under its own names,
\* picks an output name no file has, and calls the function of the role.
Call(wk, a, doc, image) ==
    /\ pc[wk] = "idle"
    /\ calls < MaxCalls
    /\ calls' = calls + 1
    /\ cid' = [cid EXCEPT ![wk] = calls + 1]
    /\ args' = [args EXCEPT ![wk] = a]
    /\ fs' = [fs EXCEPT ![InputPath(wk)] = PdfFile(doc),
                        ![ImagePath(wk)] = ImageFile(image),
                        ![OutputPath(wk)] = NoFile]
    /\ Goto(wk, "extract")
    /\ UNCHANGED <<loc, creator, foreign, wrote>>

\* A call made by a caller outside the HTTP layer.
Start(wk, a, doc, image) ==
    /\ Call(wk, a, doc, image)
    /\ UNCHANGED hvars

\* An extraction that opens the certificate file for exclusive creation: it
\* stops when an earlier call left a file of that name.
Extract_Exclusive(wk) ==
    /\ pc[wk] = "extract"
    /\ IF load_key_and_certificates(args[wk]) = "ValueError"
       THEN /\ Raise(wk, "InvalidCredential")
            /\ UNCHANGED <<fs, creator, foreign, wrote>>
       ELSE IF Exists(fs, cert_path)
       THEN /\ Raise(wk, "FileExistsError")
            /\ UNCHANGED <<fs, creator, foreign, wrote>>
       ELSE /\ fs' = [fs EXCEPT ![cert_path] =
                         PemFile("cert", load_key_and_certificates(args[wk]))]
            /\ Touch(wk, {cert_path})
            /\ Writes(wk, {cert_path})
            /\ Goto(wk, "write_key")
    /\ UNCHANGED <<args, loc, calls, cid, hvars>>

\* extract_cert_and_key, first half: decrypt the bundle, write the
\* certificate file.
Extract(wk) ==
    /\ pc[wk] = "extract"
    /\ IF load_key_and_certificates(args[wk]) = "ValueError"
       THEN /\ Raise(wk, "InvalidCredential")
            /\ UNCHANGED <<fs, creator, foreign, wrote>>
       ELSE /\ fs' = [fs EXCEPT ![cert_path] =
                         PemFile("cert", load_key_and_certificates(args[wk]))]
            /\ Touch(wk, {cert_path})
            /\ Writes(wk, {cert_path})
            /\ Goto(wk, "write_key")
    /\ UNCHANGED <<args, loc, calls, cid, hvars>>

\* extract_cert_and_key, second half: write the key file.
WriteKey(wk) ==
    /\ pc[wk] = "write_key"
    /\ fs' = [fs EXCEPT ![key_path] =
                 PemFile("key", load_key_and_certificates(args[wk]))]
    /\ Touch(wk, {key_path})
    /\ Writes(wk, {key_path})
    /\ Goto(wk, "load")
    /\ UNCHANGED <<args, loc, calls, cid, hvars>>

\* signer = SimpleSigner.load(key_path, cert_path); pdf_image = PdfImage(image_path)
LoadSigner(wk) ==
    /\ pc[wk] = "load"
    /\ loc' = [loc EXCEPT ![wk].signer = SimpleSigner_load(fs, key_path, cert_path)]
    /\ Touch(wk, {p \in {key_path, cert_path} : Exists(fs, p)})
    /\ IF fs[ImagePath(wk)].readable
       THEN Goto(wk, "field1")
       ELSE Raise(wk, "ImageError")
    /\ UNCHANGED <<fs, args, calls, cid, creator, wrote, hvars>>

\* with open(src, 'rb') as inf: w = IncrementalPdfFileWriter(inf);
\* [the duplicate check, when guarded;] append_signature_field(w, name, box);
\* PdfSigner(meta, signer, ...); open(target, 'wb').
OpenAndAddField(wk, src, name, box, guarded, target, next) ==
    IF ~Exists(fs, src)
    THEN /\ Raise(wk, "FileNotFoundError")
         /\ UNCHANGED <<fs, loc, creator, foreign, wrote>>
    ELSE IF ~Parses(fs[src].bytes)
    THEN /\ Raise(wk, "PdfReadError")
         /\ Touch(wk, {src})
         /\ UNCHANGED <<fs, loc, creator, wrote>>
    ELSE IF AppendRefused(fs[src].bytes, name, guarded)
    THEN /\ Raise(wk, "PdfWriteError")
         /\ Touch(wk, {src})
         /\ UNCHANGED <<fs, loc, creator, wrote>>
    ELSE IF loc[wk].signer = NoSigner
    THEN /\ Raise(wk, "AttributeError")
         /\ Touch(wk, {src})
         /\ UNCHANGED <<fs, loc, creator, wrote>>
    ELSE /\ loc' = [loc EXCEPT ![wk] =
                      [signer |-> loc[wk].signer, src |-> src,
                       base |-> fs[src].bytes,
                       creates |-> IF guarded /\ field_exists(fs[src].bytes)
                                   THEN "" ELSE name,
                       box |-> IF guarded /\ field_exists(fs[src].bytes)
                               THEN NoBox ELSE box,
                       signs |-> name, checked |-> guarded]]
         /\ fs' = [fs EXCEPT ![target] = PdfFile(<<>>)]
         /\ Touch(wk, {src, target})
         /\ Writes(wk, {target})
         /\ Goto(wk, next)

\* pdf_signer.sign_pdf(w, output=outf)
SignInto(wk, target, step, next) ==
    IF args[wk].fault = step \/ IsSigned(loc[wk].base, loc[wk].signs)
    THEN /\ Raise(wk, "SigningError")
         /\ UNCHANGED <<fs, creator, foreign, wrote>>
    ELSE /\ \E prefix \in StreamContents(wk) :
                fs' = [fs EXCEPT ![target] = PdfFile(SignedBytes(prefix, loc[wk]))]
         /\ Touch(wk, {loc[wk].src, target})
         /\ Writes(wk, {target})
         /\ Goto(wk, next)

\* A removal that leaves the file where it is.
OsRemove_Keeps(wk, path, next) ==
    /\ Goto(wk, next)
    /\ UNCHANGED <<fs, creator, foreign, wrote>>

\* os.remove(path)
OsRemove(wk, path, next) ==
    IF ~Exists(fs, path)
    THEN /\ Raise(wk, "FileNotFoundError")
         /\ UNCHANGED <<fs, creator, foreign, wrote>>
    ELSE /\ fs' = [fs EXCEPT ![path] = NoFile]
         /\ Touch(wk, {path})
         /\ creator' = [creator EXCEPT ![path] = 0]
         /\ Goto(wk, next)
         /\ UNCHANGED wrote

\* A single-signature function that writes its result over its input.
FirstTarget_InPlace(wk) ==
    IF args[wk].role \in TwoSigRoles THEN intermediate_output ELSE InputPath(wk)

\* Where the first signature of a role goes: the intermediate file for the
\* two-signature roles, the output for the others.
FirstTarget(wk) ==
    IF args[wk].role \in TwoSigRoles THEN intermediate_output ELSE OutputPath(wk)

AddField1(wk) ==
    /\ pc[wk] = "field1"
    /\ OpenAndAddField(wk, InputPath(wk), FieldName1(args[wk].role),
                       Box1(args[wk].role, args[wk].whole_month),
                       Guarded(args[wk].role, 1), FirstTarget(wk), "sign1")
    /\ UNCHANGED <<args, calls, cid, hvars>>

Sign1(wk) ==
    /\ pc[wk] = "sign1"
    /\ SignInto(wk, FirstTarget(wk), "sign1",
                IF args[wk].role \in TwoSigRoles THEN "field2" ELSE "rm_cert")
    /\ UNCHANGED <<args, loc, calls, cid, hvars>>

AddField2(wk) ==
    /\ pc[wk] = "field2"
    /\ OpenAndAddField(wk, intermediate_output, FieldName2(args[wk].role),
                       Box2(args[wk].role, args[wk].whole_month),
                       Guarded(args[wk].role, 2), OutputPath(wk), "sign2")
    /\ UNCHANGED <<args, calls, cid, hvars>>

Sign2(wk) ==
    /\ pc[wk] = "sign2"
    /\ SignInto(wk, OutputPath(wk), "sign2", "rm_cert")
    /\ UNCHANGED <<args, loc, calls, cid, hvars>>

RemoveCert(wk) ==
    /\ pc[wk] = "rm_cert"
    /\ OsRemove(wk, cert_path, "rm_key")
    /\ UNCHANGED <<args, loc, calls, cid, hvars>>

RemoveKey(wk) ==
    /\ pc[wk] = "rm_key"
    /\ OsRemove(wk, key_path,
                IF args[wk].role \in TwoSigRoles THEN "rm_inter" ELSE "done")
    /\ UNCHANGED <<args, loc, calls, cid, hvars>>

RemoveIntermediate(wk) ==
    /\ pc[wk] = "rm_inter"
    /\ OsRemove(wk, intermediate_output, "done")
    /\ UNCHANGED <<args, loc, calls, cid, hvars>>

\* The call returns, or its exception reaches the caller.
Return(wk) ==
    /\ pc[wk] \in {"done", "failed"}
    /\ pc' = [pc EXCEPT ![wk] = "idle"]
    /\ err' = [err EXCEPT ![wk] = ""]
    /\ args' = [args EXCEPT ![wk] = NoArgs]
    /\ loc' = [loc EXCEPT ![wk] = NoLoc]
    /\ foreign' = [foreign EXCEPT ![wk] = {}]
    /\ wrote' = [wrote EXCEPT ![wk] = {}]
    /\ UNCHANGED <<fs, calls, cid, creator, hvars>>

Step(wk) ==
    \/ Extract(wk)
    \/ WriteKey(wk)
    \/ LoadSigner(wk)
    \/ AddField1(wk)
    \/ Sign1(wk)
    \/ AddField2(wk)
    \/ Sign2(wk)
    \/ RemoveCert(wk)
    \/ RemoveKey(wk)
    \/ RemoveIntermediate(wk)
    \/ Return(wk)

\* ------------------------------------------------------------------ inputs
\* whole_month is a parameter of the two DTR functions only; a fault is a
\* failure of the signing primitive at the first or the second sign_pdf.
ArgsOf(roles, bundles, p12s, faults) ==
    {a \in [role : roles, whole_month : BOOLEAN, bundle : bundles,
            p12 : p12s, fault : faults] :
        /\ a.role \in SingleRoles => a.whole_month /\ a.fault # "sign2"}

\* A document that already carries an empty InchargeSignature1 field.
WithPlaceholder == <<Hdr, Update("InchargeSignature1", <<50, 70, 250, 130>>, "", NoSigner)>>

BaseDocs == {Blank, Malformed, WithPlaceholder}

\* The documents earlier calls produced and the callers still hold.
Outputs == {fs[OutputPath(w)].bytes : w \in {x \in Workers : Exists(fs, OutputPath(x))}}

\* Two workers, any interleaving of their calls.
ConcArgs == ArgsOf({"Owner", "Incharge", "LeaveOwner"}, {"A", "B"},
                   {"ok", "wrong_password"}, {"none"})

StartConc(wk) ==
    \E a \in ConcArgs, doc \in {Blank} : Start(wk, a, doc, TRUE)

Next ==
    \E wk \in Workers : StartConc(wk) \/ Step(wk)

Spec == Init /\ [][Next]_vars

\* One worker: calls run alone, one after the other, on base documents or on
\* what earlier calls produced.
SeqArgs == ArgsOf(Roles, {"A"}, {"ok", "wrong_password", "malformed"},
                  {"none", "sign1", "sign2"})

StartSeq(wk) ==
    \E a \in SeqArgs, doc \in BaseDocs \cup Outputs, image \in BOOLEAN :
        Start(wk, a, doc, image)

NextSeq ==
    \E wk \in {1} : StartSeq(wk) \/ Step(wk)

SpecSeq == Init /\ [][NextSeq]_vars

\* ============================================================ the HTTP layer
\* Two applications expose the pipeline: main.py (FastAPI app; verify_token of
\* app/utils/auth.py; file names from the clock) and app/api/endpoints.py
\* (router; verify_token of app/core/security.py; file names from the names
\* of the uploads).  A request slot r is served by the worker r.
Apps == {"main", "endpoints"}

\* ------------------------------------------------------------- verify_token
TokenKinds == {"missing", "valid", "empty_payload", "expired", "malformed",
               "bad_signature"}

\* What the jwt package (PyJWT) exports, as far as the two functions use it.
jwt_exports == {"decode", "encode", "exceptions", "PyJWTError",
                "InvalidTokenError", "DecodeError", "InvalidSignatureError",
                "ExpiredSignatureError"}

\* jwt.decode(credentials.credentials, SECRET_KEY, algorithms=["HS256"])
jwt_decode(token) ==
    CASE token = "valid" -> [raised |-> "", payload |-> "claims"]
      [] token = "empty_payload" -> [raised |-> "", payload |-> "empty"]
      [] token = "expired" -> [raised |-> "ExpiredSignatureError", payload |-> ""]
      [] token = "malformed" -> [raised |-> "DecodeError", payload |-> ""]
      [] token = "bad_signature" -> [raised |-> "InvalidSignatureError", payload |-> ""]

\* isinstance(exc, class) for the exception classes of the package.
IsInstance(exc, class) ==
    \/ exc = class
    \/ /\ class \in {"InvalidTokenError", "PyJWTError"}
       /\ exc \in {"DecodeError", "InvalidSignatureError", "ExpiredSignatureError"}
    \/ /\ class = "DecodeError"
       /\ exc = "InvalidSignatureError"

\* try: ... except jwt.<clauses[1]>: raise HTTPException(401)
\*          except jwt.<clauses[2]>: raise HTTPException(401)
\* The clauses are tried in order; a clause is tried by looking its class up
\* in the package, and the lookup of a name the package does not export
\* raises AttributeError in place of the exception being handled.
RECURSIVE ExceptChain(_, _)
ExceptChain(exc, clauses) ==
    IF clauses = <<>> THEN exc
    ELSE IF Head(clauses) \notin jwt_exports THEN "AttributeError"
    ELSE IF IsInstance(exc, Head(clauses)) THEN "HTTPException401"
    ELSE ExceptChain(exc, Tail(clauses))

\* The body the two verify_token functions share: status 0 is a return of
\* the payload; an HTTPException gives its status; any other exception that
\* leaves the dependency is answered with 500 by the framework.
VerifyWith(token, clauses) ==
    IF token = "missing"
    THEN [status |-> 401, payload |-> ""]
    ELSE LET d == jwt_decode(token)
             raised == IF d.raised # "" THEN d.raised
                       ELSE IF d.payload = "empty" THEN "HTTPException401"
                       ELSE ""
         IN  IF raised = ""
             THEN [status |-> 0, payload |-> d.payload]
             ELSE IF ExceptChain(raised, clauses) = "HTTPException401"
             THEN [status |-> 401, payload |-> ""]
             ELSE [status |-> 500, payload |-> ""]

\* app/utils/auth.py: except jwt.ExpiredSignatureError, except jwt.JWTError;
\* app/core/security.py: except jwt.exceptions.ExpiredSignatureError,
\* except jwt.exceptions.InvalidTokenError.
verify_token(app, token) ==
    IF app = "main"
    THEN VerifyWith(token, <<"ExpiredSignatureError", "JWTError">>)
    ELSE VerifyWith(token, <<"ExpiredSignatureError", "InvalidTokenError">>)

\* --------------------------------------------------------------- file names
\* int(datetime.datetime.now().timestamp()) at the moment the handler starts.
Seconds == {"1762200000", "1762200001"}
\* input_pdf.filename, image.filename
Filenames == {"dtr.pdf", "dtr_2.pdf"}
ImageNames == {"sig.png", "sig_2.png"}

\* What the names of a request are made from: the clock in main.py, the
\* names of the uploads in endpoints.py.
Keys(app) == IF app = "main" THEN Seconds ELSE Filenames
ImageKeys(app) == IF app = "main" THEN {""} ELSE ImageNames

\* signed_owner_{timestamp}.pdf, signed_incharge_{timestamp}.pdf
OutputPrefix(role) ==
    IF role = "Owner" THEN "signed_owner_" ELSE "signed_incharge_"

\* The names a handler computes for the files of its request, as
\* <<directory, prefix, key, suffix>>.
HandlerPaths(q) ==
    IF q.app = "main"
    THEN {<<"temp_files", "input_", q.key, ".pdf">>,
          <<"output_files", OutputPrefix(q.role), q.key, ".pdf">>,
          <<"temp_files", "original_image_", q.key, ".png">>,
          <<"temp_files", "processed_image_", q.key, ".png">>}
    ELSE {<<"temp_files", "input_", q.key, "">>,
          <<"temp_files", "output_", q.key, "">>,
          <<"temp_files", "image_", q.image_name, "">>}

\* The handler of r has computed its names and has not answered yet.
InHandler(r) == hpc[r] \in {"named", "saved", "waiting"}

\* ---------------------------------------------------------------- requests
\* The requests a client sends to /sign-dtr-owner/ of either application.
\* save is what open(path, "wb") of the first upload does; readable is
\* whether the uploaded image can be decoded.  The server processes are
\* interchangeable: slot r is served by one of the first r of them.
Requests(r) ==
    {q \in [app : Apps, role : {"Owner"}, token : TokenKinds, proc : Procs,
            save : {"ok", "PermissionError"}, readable : BOOLEAN, key : {""},
            image_name : {""}] :
        /\ q.proc <= r
        /\ q.token # "valid" => (q.save = "ok" /\ q.readable)
        /\ q.save # "ok" => q.readable}

\* The arguments the handlers pass to the pipeline function.
HttpArgs(q) ==
    [role |-> q.role, whole_month |-> TRUE, bundle |-> "A", p12 |-> "ok",
     fault |-> "none"]

\* except FileNotFoundError -> 404; except PermissionError -> 403;
\* except Exception -> 500; no exception -> 200.
HttpStatus(cause) ==
    CASE cause = "" -> 200
      [] cause = "FileNotFoundError" -> 404
      [] cause = "PermissionError" -> 403
      [] OTHER -> 500

LoopRuns(r) == loop[req[r].proc] = 0

Answer(r, cause, complete) ==
    /\ hpc' = [hpc EXCEPT ![r] = "responded"]
    /\ resp' = [resp EXCEPT ![r] = [status |-> HttpStatus(cause),
                                     cause |-> cause, complete |-> complete]]

\* The second sign_pdf of the call of r has written the output.
OutputComplete(r) ==
    /\ Exists(fs, OutputPath(r))
    /\ IsSigned(fs[OutputPath(r)].bytes, FieldName2(args[r].role))

\* A client sends a request to one of the server processes.  From here on
\* the paths of slot r stand for the names of this request, which no file
\* has yet.
Arrive(r) ==
    /\ hpc[r] \in {"none", "responded"}
    /\ pc[r] = "idle"
    /\ calls < MaxCalls
    /\ \E q \in Requests(r) : req' = [req EXCEPT ![r] = q]
    /\ hpc' = [hpc EXCEPT ![r] = "arrived"]
    /\ resp' = [resp EXCEPT ![r] = NoResp]
    /\ fs' = [fs EXCEPT ![InputPath(r)] = NoFile, ![ImagePath(r)] = NoFile,
                        ![OutputPath(r)] = NoFile]
    /\ UNCHANGED <<pc, args, loc, err, calls, cid, creator, foreign, wrote, loop>>

\* The event loop of the process takes the request and resolves
\* Depends(verify_token).
Authenticate(r) ==
    /\ hpc[r] = "arrived"
    /\ LoopRuns(r)
    /\ LET v == verify_token(req[r].app, req[r].token)
       IN  IF v.status = 0
           THEN /\ hpc' = [hpc EXCEPT ![r] = "accepted"]
                /\ UNCHANGED resp
           ELSE /\ hpc' = [hpc EXCEPT ![r] = "responded"]
                /\ resp' = [resp EXCEPT ![r] = [status |-> v.status,
                                                 cause |-> "verify_token",
                                                 complete |-> FALSE]]
    /\ UNCHANGED <<fs, pc, args, loc, err, calls, cid, creator, foreign, wrote,
                   req, loop>>

\* The handler starts and computes its file names.
Begin(r) ==
    /\ hpc[r] = "accepted"
    /\ LoopRuns(r)
    /\ \E k \in Keys(req[r].app), i \in ImageKeys(req[r].app) :
           req' = [req EXCEPT ![r].key = k, ![r].image_name = i]
    /\ hpc' = [hpc EXCEPT ![r] = "named"]
    /\ UNCHANGED <<fs, pc, args, loc, err, calls, cid, creator, foreign, wrote,
                   resp, loop>>

\* The handler saves the uploads (awaiting their contents) and, in main.py,
\* runs ImageProcessor.process_signature_image.  The behaviours followed from
\* here are those in which the names of the requests being handled differ:
\* fs keeps the files of the request slots apart.
SaveUploads(r) ==
    /\ hpc[r] = "named"
    /\ LoopRuns(r)
    /\ \A o \in Workers \ {r} :
           InHandler(o) => HandlerPaths(req[r]) \cap HandlerPaths(req[o]) = {}
    /\ IF req[r].save # "ok"
       THEN /\ Answer(r, req[r].save, FALSE)
            /\ UNCHANGED fs
       ELSE /\ fs' = [fs EXCEPT ![InputPath(r)] = PdfFile(Blank),
                               ![ImagePath(r)] = ImageFile(req[r].readable)]
            /\ IF req[r].app = "main" /\ ~req[r].readable
               THEN Answer(r, "ImageError", FALSE)
               ELSE /\ hpc' = [hpc EXCEPT ![r] = "saved"]
                    /\ UNCHANGED resp
    /\ UNCHANGED <<pc, args, loc, err, calls, cid, creator, foreign, wrote,
                   req, loop>>

\* with ThreadPoolExecutor() as executor: future = executor.submit(...);
\* future.result(): the pipeline function starts on a pool thread and the
\* handler, which runs on the event loop, waits for it in a blocking call.
Submit(r) ==
    /\ hpc[r] = "saved"
    /\ LoopRuns(r)
    /\ Call(r, HttpArgs(req[r]), fs[InputPath(r)].bytes, fs[ImagePath(r)].readable)
    /\ loop' = [loop EXCEPT ![req[r].proc] = r]
    /\ hpc' = [hpc EXCEPT ![r] = "waiting"]
    /\ UNCHANGED <<req, resp>>

\* The files the handler removes once future.result() has returned or
\* raised: main.py removes the input and the image after a success and
\* nothing after a failure; endpoints.py removes input, image and output
\* after a success and, in its finally, whichever of them exist.
HandlerRemoves(r) ==
    IF req[r].app = "endpoints"
    THEN {InputPath(r), ImagePath(r), OutputPath(r)}
    ELSE IF pc[r] = "done" THEN {InputPath(r), ImagePath(r)}
    ELSE {}

\* future.result() returns or raises; the handler cleans up and answers.
Resume(r) ==
    /\ hpc[r] = "waiting"
    /\ pc[r] \in {"done", "failed"}
    /\ loop[req[r].proc] = r
    /\ fs' = [p \in Paths |-> IF p \in HandlerRemoves(r) THEN NoFile ELSE fs[p]]
    /\ Answer(r, err[r], OutputComplete(r))
    /\ loop' = [loop EXCEPT ![req[r].proc] = 0]
    /\ pc' = [pc EXCEPT ![r] = "idle"]
    /\ err' = [err EXCEPT ![r] = ""]
    /\ args' = [args EXCEPT ![r] = NoArgs]
    /\ loc' = [loc EXCEPT ![r] = NoLoc]
    /\ foreign' = [foreign EXCEPT ![r] = {}]
    /\ wrote' = [wrote EXCEPT ![r] = {}]
    /\ UNCHANGED <<calls, cid, creator, req>>

HttpNext ==
    \E r \in Workers :
        \/ Arrive(r)
        \/ Authenticate(r)
        \/ Begin(r)
        \/ SaveUploads(r)
        \/ Submit(r)
        \/ Extract(r)
        \/ WriteKey(r)
        \/ LoadSigner(r)
        \/ AddField1(r)
        \/ Sign1(r)
        \/ AddField2(r)
        \/ Sign2(r)
        \/ RemoveCert(r)
        \/ RemoveKey(r)
        \/ RemoveIntermediate(r)
        \/ Resume(r)

SpecHttp == Init /\ [][HttpNext]_vars

\* ------------------------------------------------- /sign-dtr/ of main.py
\* sign_dtr_owner_and_incharge: one request, two pipeline calls.  The handler
\* names five files from the clock, saves the document and the two images as
\* they are (no ImageProcessor), and calls dtr_sign_pdf_sync_owner from
\* input_path into intermediate_path and then dtr_sign_pdf_sync_incharge from
\* intermediate_path into output_path.  Until the first call has returned,
\* OutputPath(r) stands for intermediate_{timestamp}.pdf and ImagePath(r) for
\* the owner's image; from the second submit on, InputPath(r) stands for
\* intermediate_{timestamp}.pdf, ImagePath(r) for the incharge's image and
\* OutputPath(r) for signed_owner_incharge_{timestamp}.pdf (the upload
\* input_{timestamp}.pdf, which nothing reads any more, is not followed).
DtrPaths(q) ==
    {<<"temp_files", "input_", q.key, ".pdf">>,
     <<"temp_files", "intermediate_", q.key, ".pdf">>,
     <<"output_files", "signed_owner_incharge_", q.key, ".pdf">>,
     <<"temp_files", "owner_image_", q.key, ".png">>,
     <<"temp_files", "incharge_image_", q.key, ".png">>}

InDtrHandler(r) == hpc[r] \in {"named", "saved", "waiting", "between", "waiting2"}

\* The requests a client sends to /sign-dtr/; readable is whether the
\* owner's image can be decoded.
DtrRequests(r) ==
    {q \in [app : {"main"}, role : {"Both"}, token : TokenKinds, proc : Procs,
            save : {"ok", "PermissionError"}, readable : BOOLEAN, key : {""},
            image_name : {""}] :
        /\ q.proc <= r
        /\ q.token # "valid" => (q.save = "ok" /\ q.readable)
        /\ q.save # "ok" => q.readable}

\* The arguments of the two calls of the request.
DtrArgs(role) ==
    [role |-> role, whole_month |-> TRUE, bundle |-> "A", p12 |-> "ok",
     fault |-> "none"]

ArriveDtr(r) ==
    /\ hpc[r] \in {"none", "responded"}
    /\ pc[r] = "idle"
    /\ calls < MaxCalls
    /\ \E q \in DtrRequests(r) : req' = [req EXCEPT ![r] = q]
    /\ hpc' = [hpc EXCEPT ![r] = "arrived"]
    /\ resp' = [resp EXCEPT ![r] = NoResp]
    /\ fs' = [fs EXCEPT ![InputPath(r)] = NoFile, ![ImagePath(r)] = NoFile,
                        ![OutputPath(r)] = NoFile]
    /\ UNCHANGED <<pc, args, loc, err, calls, cid, creator, foreign, wrote, loop>>

\* The handler saves the document and the images (awaiting their contents).
\* As in SaveUploads, only behaviours with distinct names are followed.
SaveDtr(r) ==
    /\ hpc[r] = "named"
    /\ LoopRuns(r)
    /\ \A o \in Workers \ {r} :
           InDtrHandler(o) => DtrPaths(req[r]) \cap DtrPaths(req[o]) = {}
    /\ IF req[r].save # "ok"
       THEN /\ Answer(r, req[r].save, FALSE)
            /\ UNCHANGED fs
       ELSE /\ fs' = [fs EXCEPT ![InputPath(r)] = PdfFile(Blank),
                               ![ImagePath(r)] = ImageFile(req[r].readable)]
            /\ hpc' = [hpc EXCEPT ![r] = "saved"]
            /\ UNCHANGED resp
    /\ UNCHANGED <<pc, args, loc, err, calls, cid, creator, foreign, wrote,
                   req, loop>>

\* future = executor.submit(pdf_signer.dtr_sign_pdf_sync_owner, input_path,
\* intermediate_path, owner_image_path, ...); future.result()
SubmitOwner(r) ==
    /\ hpc[r] = "saved"
    /\ LoopRuns(r)
    /\ Call(r, DtrArgs("Owner"), fs[InputPath(r)].bytes, fs[ImagePath(r)].readable)
    /\ loop' = [loop EXCEPT ![req[r].proc] = r]
    /\ hpc' = [hpc EXCEPT ![r] = "waiting"]
    /\ UNCHANGED <<req, resp>>

\* The first future.result() returns, and the handler goes on to the second
\* submit without giving up the event loop, or it raises, and the handler
\* leaves the with block and answers through its except clauses, removing
\* nothing.
OwnerReturns(r) ==
    /\ hpc[r] = "waiting"
    /\ pc[r] \in {"done", "failed"}
    /\ loop[req[r].proc] = r
    /\ IF pc[r] = "done"
       THEN /\ hpc' = [hpc EXCEPT ![r] = "between"]
            /\ UNCHANGED <<resp, loop>>
       ELSE /\ Answer(r, err[r], FALSE)
            /\ loop' = [loop EXCEPT ![req[r].proc] = 0]
    /\ pc' = [pc EXCEPT ![r] = "idle"]
    /\ err' = [err EXCEPT ![r] = ""]
    /\ args' = [args EXCEPT ![r] = NoArgs]
    /\ loc' = [loc EXCEPT ![r] = NoLoc]
    /\ foreign' = [foreign EXCEPT ![r] = {}]
    /\ wrote' = [wrote EXCEPT ![r] = {}]
    /\ UNCHANGED <<fs, calls, cid, creator, req>>

\* future = executor.submit(pdf_signer.dtr_sign_pdf_sync_incharge,
\* intermediate_path, output_path, incharge_image_path, ...); future.result()
SubmitIncharge(r) ==
    /\ hpc[r] = "between"
    /\ loop[req[r].proc] = r
    /\ Call(r, DtrArgs("Incharge"), fs[OutputPath(r)].bytes, TRUE)
    /\ hpc' = [hpc EXCEPT ![r] = "waiting2"]
    /\ UNCHANGED <<req, resp, loop>>

\* The second future.result() returns: the handler removes the input, the
\* intermediate file and the two images and answers with the output; or it
\* raises, and the handler answers through its except clauses.
ResumeDtr(r) ==
    /\ hpc[r] = "waiting2"
    /\ pc[r] \in {"done", "failed"}
    /\ loop[req[r].proc] = r
    /\ fs' = [p \in Paths |->
                 IF pc[r] = "done" /\ p \in {InputPath(r), ImagePath(r)}
                 THEN NoFile ELSE fs[p]]
    /\ Answer(r, err[r], OutputComplete(r))
    /\ loop' = [loop EXCEPT ![req[r].proc] = 0]
    /\ pc' = [pc EXCEPT ![r] = "idle"]
    /\ err' = [err EXCEPT ![r] = ""]
    /\ args' = [args EXCEPT ![r] = NoArgs]
    /\ loc' = [loc EXCEPT ![r] = NoLoc]
    /\ foreign' = [foreign EXCEPT ![r] = {}]
    /\ wrote' = [wrote EXCEPT ![r] = {}]
    /\ UNCHANGED <<calls, cid, creator, req>>

DtrNext ==
    \E r \in Workers :
        \/ ArriveDtr(r)
        \/ Authenticate(r)
        \/ Begin(r)
        \/ SaveDtr(r)
        \/ SubmitOwner(r)
        \/ OwnerReturns(r)
        \/ SubmitIncharge(r)
        \/ Extract(r)
        \/ WriteKey(r)
        \/ LoadSigner(r)
        \/ AddField1(r)
        \/ Sign1(r)
        \/ AddField2(r)
        \/ Sign2(r)
        \/ RemoveCert(r)
        \/ RemoveKey(r)
        \/ RemoveIntermediate(r)
        \/ ResumeDtr(r)

SpecDtr == Init /\ [][DtrNext]_vars

\* ================================================================== claims
AfterSign2 == {"rm_cert", "rm_key", "rm_inter", "done"}
TwoSig(w) == args[w].role \in TwoSigRoles

\* C1: within one two-signature invocation the steps run in the order
\* add field 1, sign field 1, add field 2, sign field 2, and the second field
\* is added to, and the second signature computed over, the revision that
\* holds this invocation's first signature: once field 2 has been added, the
\* writer of the second step was opened on the intermediate file, and the
\* revision it parsed is the invocation's input followed by the update that
\* signs the first field.
C1_SecondStepOverFirstSignature ==
    \A w \in Workers :
        (TwoSig(w) /\ pc[w] \in {"sign2"} \cup AfterSign2) =>
            /\ loc[w].src = intermediate_output
            /\ loc[w].signs = FieldName2(args[w].role)
            /\ IsPrefix(fs[InputPath(w)].bytes, loc[w].base)
            /\ IsSigned(loc[w].base, FieldName1(args[w].role))
            /\ ~IsSigned(loc[w].base, FieldName2(args[w].role))

\* C2: signing is append-only: the revision a sign step writes is exactly the
\* revision that step parsed followed by one incremental update, so every
\* signature of the predecessor keeps its position and its bytes.
C2_OutputExtendsPredecessor ==
    \A w \in Workers :
        (pc[w] \in AfterSign2 /\ Exists(fs, OutputPath(w))) =>
            /\ IsPrefix(loc[w].base, fs[OutputPath(w)].bytes)
            /\ Len(fs[OutputPath(w)].bytes) = Len(loc[w].base) + 1

\* C3: no certificate, key or intermediate file staged by one invocation is
\* read, overwritten or deleted by a different invocation in flight.
C3_NoForeignArtifactTouched ==
    \A w \in Workers : foreign[w] = {}

\* C4: the signer an invocation uses is the key and the certificate of its
\* own bundle.
C4_SignerIsOwnCredential ==
    \A w \in Workers :
        (pc[w] \in Running \ {"extract", "write_key", "load"}
            /\ loc[w].signer # NoSigner) =>
            loc[w].signer = [key |-> args[w].bundle, cert |-> args[w].bundle]

\* C5: when an invocation ends in an error, no staged certificate, key or
\* intermediate file is left.
C5_FailureErasesStagedFiles ==
    \A w \in Workers :
        pc[w] = "failed" => \A p \in StagedPaths : ~Exists(fs, p)

\* C6: when an invocation ends in an error, no file exists at its output
\* path.
C6_FailureLeavesNoOutput ==
    \A w \in Workers :
        pc[w] = "failed" => ~Exists(fs, OutputPath(w))

\* C7: an invocation given a wrong password or a malformed bundle, whatever
\* its role, fails in the credential extraction and nowhere later, with the
\* credential error, and has written no file by then: no certificate or key
\* file, no intermediate revision, no output.
BadBundle(w) == args[w].p12 \in {"wrong_password", "malformed"}

C7_BadPasswordFailsEarly ==
    \A w \in Workers :
        BadBundle(w) =>
            /\ pc[w] \in {"extract", "failed"}
            /\ pc[w] = "failed" => err[w] = "InvalidCredential"
            /\ wrote[w] = {}
            /\ ~Exists(fs, OutputPath(w))

C7_Witness ==
    \E w \in Workers :
        /\ pc[w] = "failed"
        /\ args[w].p12 = "wrong_password"
        /\ args[w].role = "LeaveCao"
        /\ err[w] = "InvalidCredential"

\* C8: an Incharge invocation on a document that already holds an empty
\* InchargeSignature1 field, with a valid bundle, a readable image and a
\* working signing primitive, ends well, and its output holds exactly one
\* field of that name, signed, and a signed InchargeSignature2.
OnPlaceholder(w) ==
    /\ args[w].role = "Incharge"
    /\ args[w].p12 = "ok"
    /\ args[w].fault = "none"
    /\ fs[ImagePath(w)] = ImageFile(TRUE)
    /\ fs[InputPath(w)] = PdfFile(WithPlaceholder)

C8_InchargeReusesExistingField ==
    \A w \in Workers :
        (OnPlaceholder(w) /\ pc[w] \in {"done", "failed"}) =>
            /\ pc[w] = "done"
            /\ Cardinality(FieldAt(fs[OutputPath(w)].bytes, "InchargeSignature1")) = 1
            /\ IsSigned(fs[OutputPath(w)].bytes, "InchargeSignature1")
            /\ IsSigned(fs[OutputPath(w)].bytes, "InchargeSignature2")

\* C9: in every document on disk, whatever sequence of invocations wrote it,
\* no two fields have the same name.
DistinctFieldNames(bytes) ==
    \A i, j \in Updates(bytes) :
        (bytes[i].creates # "" /\ bytes[i].creates = bytes[j].creates) => i = j

C9_FieldNamesDistinct ==
    \A p \in Paths : fs[p].t = "pdf" => DistinctFieldNames(fs[p].bytes)

\* A leave-application Owner signing was asked for on a document a DTR Owner
\* signing produced, which already has a field called OwnerSignature2, and
\* the call ended without writing a second one.
C9_Witness ==
    \E w \in Workers :
        /\ pc[w] = "failed"
        /\ err[w] = "PdfWriteError"
        /\ args[w].role = "LeaveOwner"
        /\ IsSigned(fs[InputPath(w)].bytes, "OwnerSignature1")
        /\ IsSigned(fs[InputPath(w)].bytes, "OwnerSignature2")
        /\ ~Exists(fs, OutputPath(w))

\* C10: the Owner layout: OwnerSignature1 at (50,105,250,165) and
\* OwnerSignature2 at (360,105,560,165) when whole_month is true, and both
\* boxes with the same x and with y0, y1 larger by 250 when it is false.
\* These are the boxes the DTR Owner function asks for at its two field
\* creations, and the box of the field its output ends with.
OwnerBoxes(whole_month) ==
    IF whole_month
    THEN <<<<50, 105, 250, 165>>, <<360, 105, 560, 165>>>>
    ELSE <<<<50, 355, 250, 415>>, <<360, 355, 560, 415>>>>

LastBlock(bytes) == bytes[Len(bytes)]

C10_OwnerLayout ==
    \A w \in Workers :
        args[w].role = "Owner" =>
            /\ pc[w] = "sign1" =>
                  /\ loc[w].creates = "OwnerSignature1"
                  /\ loc[w].box = OwnerBoxes(args[w].whole_month)[1]
            /\ pc[w] = "sign2" =>
                  /\ loc[w].creates = "OwnerSignature2"
                  /\ loc[w].box = OwnerBoxes(args[w].whole_month)[2]
            /\ pc[w] \in AfterSign2 =>
                  /\ LastBlock(fs[OutputPath(w)].bytes).creates = "OwnerSignature2"
                  /\ LastBlock(fs[OutputPath(w)].bytes).box =
                         OwnerBoxes(args[w].whole_month)[2]

C10_Witness ==
    \E w \in Workers :
        /\ args[w].role = "Owner"
        /\ ~args[w].whole_month
        /\ pc[w] = "done"
        /\ LastBlock(fs[OutputPath(w)].bytes).box = <<360, 355, 560, 415>>

\* C11: for both DTR roles and both values of whole_month the second box is
\* the first box moved by +310 on x, with the same y0 and y1; the first box
\* of the Incharge role is (50,70,250,130) when whole_month is true and is
\* moved by (0,255) when it is false, and so is the second.  These are the
\* boxes the two DTR functions ask for at their field creations, and the box
\* of the field their output ends with.
Translate(box, dx, dy) == <<box[1] + dx, box[2] + dy, box[3] + dx, box[4] + dy>>

FirstBoxOf(role, whole_month) ==
    IF role = "Owner"
    THEN Translate(<<50, 105, 250, 165>>, 0, IF whole_month THEN 0 ELSE 250)
    ELSE Translate(<<50, 70, 250, 130>>, 0, IF whole_month THEN 0 ELSE 255)

C11_SecondBoxBesideFirst ==
    \A w \in Workers :
        TwoSig(w) =>
            LET first == FirstBoxOf(args[w].role, args[w].whole_month)
                second == Translate(first, 310, 0)
            IN  /\ pc[w] = "sign1" =>
                      /\ loc[w].creates = FieldName1(args[w].role)
                      /\ loc[w].box = first
                /\ pc[w] = "sign2" =>
                      /\ loc[w].creates = FieldName2(args[w].role)
                      /\ loc[w].box = second
                      /\ loc[w].box[2] = first[2]
                      /\ loc[w].box[4] = first[4]
                /\ pc[w] \in AfterSign2 =>
                      LastBlock(fs[OutputPath(w)].bytes).box = second

C11_Witness ==
    \E w \in Workers :
        /\ args[w].role = "Incharge"
        /\ ~args[w].whole_month
        /\ pc[w] = "done"
        /\ LET out == fs[OutputPath(w)].bytes
           IN  /\ Len(out) >= 3
               /\ out[Len(out) - 1].creates = "InchargeSignature1"
               /\ out[Len(out) - 1].box = <<50, 325, 250, 385>>
               /\ out[Len(out)].creates = "InchargeSignature2"
               /\ out[Len(out)].box = <<360, 325, 560, 385>>

\* C12: a single-field role creates and signs exactly one field: the output
\* is the input followed by one update that creates and fills the field of
\* the role, OwnerSignature2 at (330,535,550,605), HeadSignature2 at
\* (330,355,550,425), SaoSignature2 at (50,355,270,425), CaoSignature2 at
\* (200,155,420,225), each 220 wide and 70 high; the call never takes the
\* steps of a second field and never writes the intermediate file.
LeaveField(role) ==
    CASE role = "LeaveOwner" -> <<"OwnerSignature2", <<330, 535, 550, 605>>>>
      [] role = "LeaveHead" -> <<"HeadSignature2", <<330, 355, 550, 425>>>>
      [] role = "LeaveSao" -> <<"SaoSignature2", <<50, 355, 270, 425>>>>
      [] role = "LeaveCao" -> <<"CaoSignature2", <<200, 155, 420, 225>>>>

C12_SingleFieldRoles ==
    \A w \in Workers :
        args[w].role \in SingleRoles =>
            LET name == LeaveField(args[w].role)[1]
                box == LeaveField(args[w].role)[2]
            IN  /\ box[3] - box[1] = 220
                /\ box[4] - box[2] = 70
                /\ pc[w] \notin {"field2", "sign2", "rm_inter"}
                /\ intermediate_output \notin wrote[w]
                /\ pc[w] = "sign1" =>
                      /\ loc[w].src = InputPath(w)
                      /\ loc[w].creates = name
                      /\ loc[w].signs = name
                      /\ loc[w].box = box
                /\ pc[w] \in {"rm_cert", "rm_key", "done"} =>
                      fs[OutputPath(w)] =
                          PdfFile(Append(fs[InputPath(w)].bytes,
                                         Update(name, box, name, loc[w].signer)))

C12_Witness ==
    \E w \in Workers :
        /\ args[w].role = "LeaveHead"
        /\ pc[w] = "done"
        /\ fs[InputPath(w)].bytes = Blank
        /\ Len(fs[OutputPath(w)].bytes) = 2
        /\ LastBlock(fs[OutputPath(w)].bytes).creates = "HeadSignature2"
        /\ LastBlock(fs[OutputPath(w)].bytes).signs = "HeadSignature2"
        /\ LastBlock(fs[OutputPath(w)].bytes).box = <<330, 355, 550, 425>>

\* C13: when an invocation of a two-signature role on a document without
\* signature fields has ended well, its output has exactly two fields, the
\* first and the second field of the role, and both are signed.
C13_ExactlyTwoSignedFields ==
    \A w \in Workers :
        (TwoSig(w) /\ pc[w] = "done"
            /\ FieldNamesOf(fs[InputPath(w)].bytes) = {}) =>
            LET out == fs[OutputPath(w)].bytes
            IN  /\ FieldNamesOf(out) =
                       {FieldName1(args[w].role), FieldName2(args[w].role)}
                /\ Cardinality({i \in Updates(out) : out[i].creates # ""}) = 2
                /\ IsSigned(out, FieldName1(args[w].role))
                /\ IsSigned(out, FieldName2(args[w].role))

C15_GuardOnlyOnInchargeField1 ==
    \A w \in Workers :
        pc[w] \in {"sign1", "sign2"} =>
            /\ loc[w].checked <=> (args[w].role = "Incharge" /\ pc[w] = "sign1")
            /\ ~loc[w].checked =>
                  /\ loc[w].creates = loc[w].signs
                  /\ loc[w].box # NoBox
                  /\ ~HasField(loc[w].base, loc[w].signs)

\* An Owner signing was asked for on a document that already has the two
\* Owner fields: the creation of OwnerSignature1 was attempted and refused.
C15_Witness ==
    \E w \in Workers :
        /\ args[w].role = "Owner"
        /\ pc[w] = "failed"
        /\ err[w] = "PdfWriteError"
        /\ HasField(fs[InputPath(w)].bytes, "OwnerSignature1")
        /\ ~Exists(fs, intermediate_output)

\* C16: a slow signing does not stall the acceptance of requests: while the
\* pipeline function of one request runs on the pool thread and another
\* request has arrived at the same server process, the event loop of that
\* process is running and can take it.
C16_LoopRunsWhileSigning ==
    \A r, q \in Workers :
        (hpc[r] = "waiting" /\ InFlight(r)
            /\ hpc[q] = "arrived" /\ req[q].proc = req[r].proc) =>
            LoopRuns(q)

\* C17: when a handler of app/api/endpoints.py has answered, on success or on
\* failure, none of the temporary files of its request is left: not the
\* saved input, the saved image or the output, and no file the signer staged
\* for it.
C17_EndpointsLeaveNoFile ==
    \A r \in Workers :
        (req[r].app = "endpoints" /\ hpc[r] = "responded"
            /\ resp[r].cause # "verify_token") =>
            /\ ~Exists(fs, InputPath(r))
            /\ ~Exists(fs, ImagePath(r))
            /\ ~Exists(fs, OutputPath(r))
            /\ \A p \in StagedPaths : Exists(fs, p) => creator[p] # cid[r]

\* C18: a failure while a request is handled is answered with 404 when a
\* file was missing, 403 when a permission was denied, and 500 otherwise; no
\* failure is answered with 200; and a request whose pipeline call wrote its
\* fully signed output is answered with 200.
C18_ErrorMapping ==
    \A r \in Workers :
        (hpc[r] = "responded" /\ resp[r].cause # "verify_token") =>
            /\ resp[r].cause = "" <=> resp[r].status = 200
            /\ resp[r].cause = "FileNotFoundError" <=> resp[r].status = 404
            /\ resp[r].cause = "PermissionError" <=> resp[r].status = 403
            /\ resp[r].status \in {200, 403, 404, 500}
            /\ resp[r].complete => resp[r].status = 200

\* C19: two requests that are being handled at the same time never have a
\* file name in common.
C19_NamesUnique ==
    \A r, q \in Workers :
        (r # q /\ InHandler(r) /\ InHandler(q)) =>
            HandlerPaths(req[r]) \cap HandlerPaths(req[q]) = {}

\* C20: a request whose token is missing, expired, invalid or wrongly signed
\* is answered with 401 and starts no pipeline call; a request gets past
\* verify_token only with a correctly signed, unexpired token.
C20_BadTokenIs401 ==
    \A r \in Workers :
        hpc[r] \notin {"none", "arrived"} =>
            /\ req[r].token # "valid" =>
                  /\ hpc[r] = "responded"
                  /\ resp[r].status = 401
                  /\ pc[r] = "idle"
                  /\ wrote[r] = {}
            /\ hpc[r] \in {"accepted", "named", "saved", "waiting"} =>
                  req[r].token \in {"valid"}

\* C21: after an invocation that runs alone and succeeds, none of the files
\* it staged is left: the certificate file, the key file and, for the
\* two-signature roles, the intermediate file it wrote have been deleted, and
\* of the files it wrote only the output document exists.
StagedBy(w) ==
    {cert_path, key_path} \cup
    (IF TwoSig(w) THEN {intermediate_output} ELSE {})

C21_SuccessLeavesOnlyOutput ==
    \A w \in Workers :
        pc[w] = "done" =>
            /\ StagedBy(w) \subseteq wrote[w]
            /\ \A p \in StagedBy(w) : ~Exists(fs, p)
            /\ {p \in wrote[w] : Exists(fs, p)} = {OutputPath(w)}

C21_Witness ==
    \E w \in Workers :
        /\ pc[w] = "done"
        /\ args[w].role = "Owner"
        /\ wrote[w] = StagedPaths \cup {OutputPath(w)}
        /\ \A p \in StagedPaths : ~Exists(fs, p)
        /\ IsSigned(fs[OutputPath(w)].bytes, "OwnerSignature2")

\* C22: the engine keeps no state between invocations: how an invocation that
\* runs alone ends (well or with which error) and what its output file holds
\* is a function of its own arguments, its input document and its image, the
\* same whatever earlier invocations ran and whatever files they left.
\* OutcomeOf is that function: the result on a directory no call has used.
Outcome(end, kind, out) == [pc |-> end, err |-> kind, out |-> out]

OutcomeOf(a, doc, readable) ==
    LET single == a.role \in SingleRoles
        own == [key |-> a.bundle, cert |-> a.bundle]
        rev1 == Append(doc, Update(FieldName1(a.role),
                                   Box1(a.role, a.whole_month),
                                   FieldName1(a.role), own))
        rev2 == Append(rev1, Update(FieldName2(a.role),
                                    Box2(a.role, a.whole_month),
                                    FieldName2(a.role), own))
    IN  IF a.p12 # "ok" THEN Outcome("failed", "InvalidCredential", NoFile)
        ELSE IF ~readable THEN Outcome("failed", "ImageError", NoFile)
        ELSE IF ~Parses(doc) THEN Outcome("failed", "PdfReadError", NoFile)
        ELSE IF HasField(doc, FieldName1(a.role))
             THEN Outcome("failed", "PdfWriteError", NoFile)
        ELSE IF a.fault = "sign1"
             THEN Outcome("failed", "SigningError",
                          IF single THEN PdfFile(<<>>) ELSE NoFile)
        ELSE IF single THEN Outcome("done", "", PdfFile(rev1))
        ELSE IF HasField(rev1, FieldName2(a.role))
             THEN Outcome("failed", "PdfWriteError", NoFile)
        ELSE IF a.fault = "sign2"
             THEN Outcome("failed", "SigningError", PdfFile(<<>>))
        ELSE Outcome("done", "", PdfFile(rev2))

C22_OutcomeDependsOnInputsOnly ==
    \A w \in Workers :
        pc[w] \in {"done", "failed"} =>
            Outcome(pc[w], err[w], fs[OutputPath(w)]) =
                OutcomeOf(args[w], fs[InputPath(w)].bytes,
                          fs[ImagePath(w)].readable)

\* A leave-application signing ended well while the intermediate file that an
\* earlier, failed DTR signing left is still in the directory.
C22_Witness ==
    \E w \in Workers :
        /\ pc[w] = "done"
        /\ args[w].role = "LeaveHead"
        /\ Exists(fs, intermediate_output)
        /\ IsSigned(fs[OutputPath(w)].bytes, "HeadSignature2")

\* C23: in the combined /sign-dtr/ request the Owner call has run to its end,
\* with both Owner signatures written, before the Incharge call starts; the
\* Incharge call reads what the Owner call wrote; no Incharge call is started
\* when the Owner call failed; and the document of a request answered with
\* 200 carries the four fields OwnerSignature1, OwnerSignature2,
\* InchargeSignature1, InchargeSignature2, created and signed in that order.
FieldOrder(bytes) == [i \in 1..(Len(bytes) - 1) |-> bytes[i + 1].creates]
SignOrder(bytes) == [i \in 1..(Len(bytes) - 1) |-> bytes[i + 1].signs]
CarriesInOrder(f, names) ==
    /\ f.t = "pdf"
    /\ Parses(f.bytes)
    /\ FieldOrder(f.bytes) = names
    /\ SignOrder(f.bytes) = names

C23_OwnerThenIncharge ==
    \A r \in Workers :
        req[r].role = "Both" =>
            /\ hpc[r] = "waiting" => args[r].role = "Owner"
            /\ hpc[r] = "between" =>
                  CarriesInOrder(fs[OutputPath(r)],
                                 <<"OwnerSignature1", "OwnerSignature2">>)
            /\ hpc[r] = "waiting2" =>
                  /\ args[r].role = "Incharge"
                  /\ CarriesInOrder(fs[InputPath(r)],
                                    <<"OwnerSignature1", "OwnerSignature2">>)
            /\ (hpc[r] = "responded" /\ resp[r].status = 200) =>
                  CarriesInOrder(fs[OutputPath(r)],
                                 <<"OwnerSignature1", "OwnerSignature2",
                                   "InchargeSignature1", "InchargeSignature2">>)

\* C24: an invocation never modifies its input: no step of a call in flight,
\* up to and including the step that ends it well or with an error, changes
\* the file at its input path or its image file (the output path being a
\* different path).
InputsKept(w) ==
    /\ fs'[InputPath(w)] = fs[InputPath(w)]
    /\ fs'[ImagePath(w)] = fs[ImagePath(w)]

C24_InputOnlyRead ==
    [][\A w \in Workers : InFlight(w) => InputsKept(w)]_vars

\* A leave-application signing has written its output and ended, and its
\* input is the document it was given, which has no field of the role.
C24_Witness ==
    \E w \in Workers :
        /\ pc[w] = "done"
        /\ args[w].role = "LeaveSao"
        /\ fs[InputPath(w)] = PdfFile(Blank)
        /\ fs[ImagePath(w)] = ImageFile(TRUE)
        /\ IsSigned(fs[OutputPath(w)].bytes, "SaoSignature2")
        /\ InputPath(w) \notin wrote[w]
        /\ ImagePath(w) \notin wrote[w]

\* C25: an Incharge invocation, with whole_month false, on a document that
\* already holds an empty InchargeSignature1 field does not create that field
\* again: it signs the existing field, whose box stays the one the input
\* gave it, (50, 70, 250, 130), and whole_month moves only the box of the
\* InchargeSignature2 it creates, to (360, 325, 560, 385).
BoxOf(bytes, name) == {bytes[i].box : i \in FieldAt(bytes, name)}

C25_ReusedFieldKeepsBox ==
    \A w \in Workers :
        (OnPlaceholder(w) /\ ~args[w].whole_month
            /\ pc[w] \in {"done", "failed"}) =>
            /\ pc[w] = "done"
            /\ BoxOf(fs[OutputPath(w)].bytes, "InchargeSignature1") =
                   {<<50, 70, 250, 130>>}
            /\ BoxOf(fs[OutputPath(w)].bytes, "InchargeSignature2") =
                   {Box2("Incharge", FALSE)}

\* C26: no field is signed twice: in every document on disk a field holds at
\* most one signature; and an Incharge invocation on a document whose
\* InchargeSignature1 field is already signed fails in its first step,
\* before it has written any revision: it never reaches the second field,
\* creates no InchargeSignature2 and leaves no file at its output path.
SignedOnce(bytes) ==
    \A i, j \in Updates(bytes) :
        (bytes[i].signs # "" /\ bytes[i].signs = bytes[j].signs) => i = j

OnSignedIncharge(w) ==
    /\ args[w].role = "Incharge"
    /\ IsSigned(fs[InputPath(w)].bytes, "InchargeSignature1")

====
